---- MODULE Spec2Model ----
(***************************************************************************)
(* A model of build_conquest_python.py: the Package lifecycle (build() and *)
(* its eight stages), the process runner Package.system() and the file     *)
(* system trees the stages work on.                                        *)
(*                                                                         *)
(* The specifications:                                                     *)
(*   Spec        - a caller runs build() on packages, one call after       *)
(*                 another; every stage is executed operation by           *)
(*                 operation, and each call of system() is one step        *)
(*                 (command, log, exit status).                            *)
(*   ClassSpec   - one build() of a package of any class, over the trees   *)
(*                 an earlier run left, removable or not.                  *)
(*   MainSpec    - main(), statement by statement.                         *)
(*   PatchSpec   - Package.patch on a text.                                *)
(*   SysSpec     - Package.system() alone, statement by statement, running *)
(*                 against a subprocess that writes lines and exits at any *)
(*                 moment; SysFairSpec adds that system() keeps running.   *)
(*                                                                         *)
(* Conventions.  A path is the tuple of its components; an f-string        *)
(* component such as f'{name}-{version}' contributes its parts in order.   *)
(* The file system fs is a function from paths to contents; a content is a *)
(* sequence of entries, an entry a tuple of strings.                       *)
(***************************************************************************)
EXTENDS Integers, Sequences, FiniteSets, TLC

(***************************************************************************)
(* Bounds of the model.                                                    *)
(***************************************************************************)
\* build() calls made by the caller in one behaviour
MaxBuilds == 2
\* system() calls made in one behaviour of SysSpec
MaxCalls == 2
\* lines a subprocess writes before it exits
MaxLines == 2
\* characters of the file Package.patch works on
MaxText == 4
\* substitutions passed to Package.patch
MaxSubs == 2

VARIABLES
    mac,        \* sys.platform == 'darwin'
    mro,        \* cls.__mro__ of every class, set when the class is created
    fs,         \* the file system: path -> content
    pc,         \* "idle", "running", "done" (build() returned), "failed" (it raised)
    pkg,        \* the package build() runs on
    stage,      \* index in BuildOrder of the stage being executed
    ip,         \* index of the next operation of that stage
    error,      \* the exception build() raised, NoError otherwise
    invoked,    \* history: stages invoked by this build(), in order
    completed,  \* history: stages that returned, in order
    spawned,    \* history: external commands run by this build()
    touched,    \* history: paths written by this build()
    committed,  \* history: content of those paths when the last stage returned
    netOps,     \* history: downloads attempted by this build()
    fetched,    \* history: manifests whose fetch stage has returned once
    nbuilds,    \* build() calls so far
    sysPc,      \* SysSpec: position in system()
    sysArgs,    \* SysSpec: arguments of the running system() call
    proc,       \* SysSpec: the subprocess
    pipe,       \* SysSpec: lines written by the subprocess and not yet read
    retcode,    \* SysSpec: local variable retcode; <<>> is None
    output,     \* SysSpec: local variable output
    sysError,   \* SysSpec: exception raised by system()
    emitted,    \* SysSpec history: every line the subprocess wrote
    logBefore,  \* SysSpec history: content of the log when system() was called
    ncalls,     \* SysSpec: system() calls so far
    locked,     \* the trees whose entries the process may not remove
    step,       \* MainSpec: index in MainProgram of the statement main() is at
    calls,      \* MainSpec history: the calls main() made and their returns
    patchPc,    \* PatchSpec: position in Package.patch
    patchFile,  \* PatchSpec: the text of the file patch works on
    substitutions, \* PatchSpec: the argument substitutions
    txt,        \* PatchSpec: local variable txt
    applied,    \* PatchSpec: iterations of the loop of patch done so far
    original    \* PatchSpec history: the text of the file when patch was called

buildVars == <<pc, pkg, stage, ip, error, invoked, completed, spawned, touched,
               committed, netOps, fetched, nbuilds>>
sysVars == <<sysPc, sysArgs, proc, pipe, retcode, output, sysError, emitted,
             logBefore, ncalls>>
mainVars == <<locked, step, calls>>
patchVars == <<patchPc, patchFile, substitutions, txt, applied, original>>
vars == <<mac, mro, fs, buildVars, sysVars, mainVars, patchVars>>

(***************************************************************************)
(* Sequences and the file system.                                          *)
(***************************************************************************)
IsPrefix(s, t) == Len(s) <= Len(t) /\ \A i \in 1..Len(s) : s[i] = t[i]

Range(s) == {s[i] : i \in 1..Len(s)}

Last(s) == s[Len(s)]

EmptyFs == [k \in {} |-> <<>>]

Exists(f, path) == path \in DOMAIN f

Content(f, path) == IF path \in DOMAIN f THEN f[path] ELSE <<>>

WriteFile(f, path, content) == (path :> content) @@ f

\* shutil.rmtree(path, ignore_errors=True): the path and everything below it
RemoveTree(f, path) == [k \in {q \in DOMAIN f : ~IsPrefix(path, q)} |-> f[k]]

\* p.mkdir(parents=True, exist_ok=True)
Mkdir(f, path) == IF path \in DOMAIN f THEN f ELSE WriteFile(f, path, <<>>)

Complete == << <<"complete">> >>
Partial == << <<"partial">> >>

(***************************************************************************)
(* Packages.  A package is its class, name, version and manifest           *)
(* (source_archives: the archive file names, in the order of the dict).    *)
(* DemoPackages are direct subclasses of Package that override nothing but *)
(* source_archives, as ApswPackage does.                                   *)
(***************************************************************************)
ZlibPackage ==
    [cls |-> "ZlibPackage", name |-> "zlib", version |-> "1.2.11",
     archives |-> <<"zlib-1.2.11.tar.xz">>]

SqlitePackage ==
    [cls |-> "SqlitePackage", name |-> "sqlite", version |-> "3.31.1",
     archives |-> <<"sqlite-autoconf-3310100.tar.gz">>]

OpensslPackage ==
    [cls |-> "OpensslPackage", name |-> "openssl", version |-> "1.1.1f",
     archives |-> <<"openssl-1.1.1f.tar.gz">>]

TclPackage ==
    [cls |-> "TclPackage", name |-> "tcl", version |-> "8.6.10",
     archives |-> <<"tcl8.6.10-src.tar.gz">>]

TkPackage ==
    [cls |-> "TkPackage", name |-> "tk", version |-> "8.6.10",
     archives |-> <<"tk8.6.10-src.tar.gz">>]

ToglPackage ==
    [cls |-> "ToglPackage", name |-> "togl", version |-> "windows-ci",
     archives |-> <<"Togl-windows-ci.zip">>]

JpegPackage ==
    [cls |-> "JpegPackage", name |-> "jpeg", version |-> "9d",
     archives |-> <<"jpegsrc.v9d.tar.gz">>]

DbPackage ==
    [cls |-> "DbPackage", name |-> "db", version |-> "5.3.28",
     archives |-> <<"db-5.3.28.tar.gz">>]

ConquestPythonPackage ==
    [cls |-> "ConquestPythonPackage", name |-> "conquest_python",
     version |-> "2.7.17-1", archives |-> <<"Python-2.7.17.tar.xz">>]

DemoManifests ==
    { <<"demo-1.0.tar.bz2", "extras.tgz">>,
      <<"demo-1.0.tar.bz2", "docs.rar">>,
      <<"docs.rar", "extras.tgz">> }

DemoPackages ==
    { [cls |-> "Package", name |-> "demo", version |-> "1.0", archives |-> m] :
        m \in DemoManifests }

Packages == {ZlibPackage, OpensslPackage, ToglPackage, DbPackage} \cup DemoPackages

\* two packages that list the same two capabilities, in opposite orders
PairPackage ==
    [cls |-> "PairPackage", name |-> "pair", version |-> "1.0",
     archives |-> <<"extras.tgz">>]

ReversedPairPackage ==
    [cls |-> "ReversedPairPackage", name |-> "reversed", version |-> "1.0",
     archives |-> <<"extras.tgz">>]

\* pathlib's Path(name).suffixes, tabulated for the file names of the model
PathSuffixes ==
    [n \in {"zlib-1.2.11.tar.xz", "sqlite-autoconf-3310100.tar.gz",
            "openssl-1.1.1f.tar.gz", "tcl8.6.10-src.tar.gz", "tk8.6.10-src.tar.gz",
            "Togl-windows-ci.zip", "jpegsrc.v9d.tar.gz", "db-5.3.28.tar.gz",
            "Python-2.7.17.tar.xz", "demo-1.0.tar.bz2", "extras.tgz", "docs.rar"} |->
        CASE n = "zlib-1.2.11.tar.xz" -> <<".2", ".11", ".tar", ".xz">>
          [] n = "sqlite-autoconf-3310100.tar.gz" -> <<".tar", ".gz">>
          [] n = "openssl-1.1.1f.tar.gz" -> <<".1", ".1f", ".tar", ".gz">>
          [] n = "tcl8.6.10-src.tar.gz" -> <<".6", ".10-src", ".tar", ".gz">>
          [] n = "tk8.6.10-src.tar.gz" -> <<".6", ".10-src", ".tar", ".gz">>
          [] n = "Togl-windows-ci.zip" -> <<".zip">>
          [] n = "jpegsrc.v9d.tar.gz" -> <<".v9d", ".tar", ".gz">>
          [] n = "db-5.3.28.tar.gz" -> <<".3", ".28", ".tar", ".gz">>
          [] n = "Python-2.7.17.tar.xz" -> <<".7", ".17", ".tar", ".xz">>
          [] n = "demo-1.0.tar.bz2" -> <<".0", ".tar", ".bz2">>
          [] n = "extras.tgz" -> <<".tgz">>
          [] n = "docs.rar" -> <<".rar">>]

(***************************************************************************)
(* Classes.  A stage or a property of a package is the attribute Python    *)
(* finds first along the method resolution order of the package's class;   *)
(* super() goes on from the class that made the call.                      *)
(***************************************************************************)
\* the class statements: the bases of each class, in the order listed.
\* FirstCapability and SecondCapability are mixins in the manner of
\* GnuMakeMixin that both define run_build_command
Bases ==
    [c \in {"object", "Package", "GnuMakeMixin", "MakeInstallMixin", "AutoconfMixin",
            "InstallInConquestPythonMixin", "InstallInConquestPythonBaseMixin",
            "ZlibPackage", "SqlitePackage", "OpensslPackage", "TclPackage",
            "TkPackage", "ToglPackage", "DbPackage", "JpegPackage",
            "ConquestPythonPackage", "ApswPackage", "FirstCapability",
            "SecondCapability", "PairPackage", "ReversedPairPackage"} |->
        CASE c = "object" -> << >>
          [] c \in {"Package", "GnuMakeMixin", "MakeInstallMixin",
                    "InstallInConquestPythonMixin", "InstallInConquestPythonBaseMixin",
                    "FirstCapability", "SecondCapability"} -> <<"object">>
          [] c = "AutoconfMixin" -> <<"GnuMakeMixin", "MakeInstallMixin", "object">>
          [] c \in {"ZlibPackage", "SqlitePackage", "OpensslPackage", "JpegPackage"} ->
                <<"InstallInConquestPythonBaseMixin", "AutoconfMixin", "Package">>
          [] c \in {"TclPackage", "TkPackage", "ToglPackage"} ->
                <<"InstallInConquestPythonMixin", "AutoconfMixin", "Package">>
          [] c = "DbPackage" ->
                <<"InstallInConquestPythonBaseMixin", "MakeInstallMixin", "Package">>
          [] c = "ConquestPythonPackage" ->
                <<"AutoconfMixin", "MakeInstallMixin", "Package">>
          [] c = "ApswPackage" -> <<"Package">>
          [] c = "PairPackage" -> <<"FirstCapability", "SecondCapability", "Package">>
          [] c = "ReversedPairPackage" ->
                <<"SecondCapability", "FirstCapability", "Package">>]

Classes == DOMAIN Bases

\* the stages and properties each class body defines, as far as the stages
\* of build() read them
ClassDict ==
    [c \in Classes |->
        CASE c = "Package" ->
                {"install_directory", "source_archives", "fetch_source_archives",
                 "extract_source_archives", "patch_sources", "source_extracted",
                 "main_source_directory_path", "build_directory_path", "cleanup",
                 "configuration_script", "arguments_to_configuration_script",
                 "run_configuration_script", "run_build_command",
                 "run_install_command", "verify", "build"}
          [] c \in {"GnuMakeMixin", "FirstCapability", "SecondCapability"} ->
                {"run_build_command"}
          [] c = "MakeInstallMixin" -> {"run_install_command"}
          [] c = "AutoconfMixin" -> {"configuration_script"}
          [] c \in {"InstallInConquestPythonMixin",
                    "InstallInConquestPythonBaseMixin"} -> {"install_directory"}
          [] c = "ZlibPackage" -> {"source_archives", "arguments_to_configuration_script"}
          [] c = "SqlitePackage" -> {"source_archives", "main_source_directory_path"}
          [] c = "OpensslPackage" ->
                {"source_archives", "configuration_script",
                 "arguments_to_configuration_script", "run_configuration_script",
                 "run_install_command", "verify"}
          [] c = "TclPackage" ->
                {"source_archives", "extract_source_archives",
                 "main_source_directory_path", "configuration_script",
                 "arguments_to_configuration_script", "run_build_command",
                 "run_install_command"}
          [] c = "TkPackage" ->
                {"source_archives", "main_source_directory_path",
                 "configuration_script", "arguments_to_configuration_script",
                 "run_build_command", "run_install_command"}
          [] c = "ToglPackage" ->
                {"source_archives", "main_source_directory_path",
                 "build_directory_path", "arguments_to_configuration_script"}
          [] c = "DbPackage" ->
                {"source_archives", "patch_sources", "configuration_script",
                 "arguments_to_configuration_script"}
          [] c = "ConquestPythonPackage" ->
                {"source_archives", "patch_sources", "main_source_directory_path",
                 "arguments_to_configuration_script"}
          [] c \in {"JpegPackage", "ApswPackage", "PairPackage",
                    "ReversedPairPackage"} -> {"source_archives"}
          [] OTHER -> {}]

\* the merge of the C3 linearization: the first head that is in no tail
RECURSIVE Merge(_)
Merge(lists) ==
    LET rest == SelectSeq(lists, LAMBDA l : l # << >>)
        heads == {i \in 1..Len(rest) :
                    \A j \in 1..Len(rest) : rest[i][1] \notin Range(Tail(rest[j]))}
        first == CHOOSE i \in heads : \A j \in heads : i <= j
        head == rest[first][1]
    IN  IF rest = << >>
        THEN << >>
        ELSE <<head>> \o Merge([j \in 1..Len(rest) |->
                                   IF rest[j][1] = head THEN Tail(rest[j]) ELSE rest[j]])

\* type.mro(): the class, then the merge of the linearizations of its bases
\* and the list of the bases
RECURSIVE Linearize(_)
Linearize(c) ==
    <<c>> \o Merge([i \in 1..Len(Bases[c]) |-> Linearize(Bases[c][i])]
                   \o <<Bases[c]>>)

\* cls.__mro__ as type.mro() computes it when the class statement runs; the
\* variable mro holds it from then on
MRO == [c \in Classes |-> Linearize(c)]

\* the classes of a method resolution order that define the attribute
Definers(order, attr) == SelectSeq(order, LAMBDA d : attr \in ClassDict[d])

\* mutant of Lookup: the last class of the order that defines the attribute
LookupLast(cls, attr) == Last(Definers(mro[cls], attr))

\* attribute lookup on an instance of cls: the first class of the order that
\* defines it
Lookup(cls, attr) == Definers(mro[cls], attr)[1]

\* super().attr called in class owner on an instance of cls
Super(cls, owner, attr) ==
    LET i == CHOOSE k \in 1..Len(mro[cls]) : mro[cls][k] = owner
    IN  Definers(SubSeq(mro[cls], i + 1, Len(mro[cls])), attr)[1]

(***************************************************************************)
(* PathLayout.                                                             *)
(***************************************************************************)
toolbase == <<"third-party">>
source_downloads_base == <<"downloads">>
source_extracted_base == <<"extracted">>
source_builds_base == <<"builds">>
build_logs == <<"logs">>

\* Package.install_directory
PackageInstallDirectory(p) == toolbase \o <<p.name, p.name, p.version>>

\* ConquestPythonPackage.python_base_directory
PythonBaseDirectory(isMac) ==
    IF isMac
    THEN PackageInstallDirectory(ConquestPythonPackage)
         \o <<"Library", "Frameworks", "Python.framework", "Versions", "2.7">>
    ELSE PackageInstallDirectory(ConquestPythonPackage)

\* install_directory as the package's class resolves it
InstallDirectory(p, isMac) ==
    LET c == Lookup(p.cls, "install_directory")
    IN  CASE c = "InstallInConquestPythonBaseMixin" -> PythonBaseDirectory(isMac)
          [] c = "InstallInConquestPythonMixin" ->
                PackageInstallDirectory(ConquestPythonPackage)
          [] c = "Package" -> PackageInstallDirectory(p)

\* the path fetch_source_archives and extract_source_archives use for an archive
DownloadPath(filename) == source_downloads_base \o <<filename>>

SourceExtracted(p) == source_extracted_base \o <<p.name>>

\* main_source_directory_path as the package's class resolves it
MainSourceDirectoryPath(p) ==
    LET c == Lookup(p.cls, "main_source_directory_path")
    IN  CASE c = "SqlitePackage" -> SourceExtracted(p) \o <<p.name, "autoconf", "3310100">>
          [] c = "ConquestPythonPackage" -> SourceExtracted(p) \o <<"Python", "2.7.17">>
          [] c \in {"Package", "TclPackage", "TkPackage", "ToglPackage"} ->
                SourceExtracted(p) \o <<p.name, p.version>>

\* Package.build_directory_path creates the directory it returns,
\* ToglPackage.build_directory_path does not
BuildDirectoryCreated(p) == Lookup(p.cls, "build_directory_path") = "Package"

\* build_directory_path as the package's class resolves it
BuildDirectoryPath(p) ==
    IF BuildDirectoryCreated(p)
    THEN source_builds_base \o <<p.name>>
    ELSE MainSourceDirectoryPath(p)

\* Package.logfile_path
LogfilePath(p, task) == build_logs \o <<p.name, p.version, task>>

\* the downloaded files
Downloads(f) == [k \in {q \in DOMAIN f : IsPrefix(source_downloads_base, q)} |-> f[k]]

(***************************************************************************)
(* The stages.  A stage is the sequence of operations its implementation   *)
(* performs, as the package's class resolves the stage; an operation is    *)
(*   kind   "cleanup" | "fetch" | "extract" | "sys" | "local" | "rmtree"   *)
(*   task   for "sys": the function that calls system(); else what is done *)
(*   cmd    the command line of a "sys" operation                          *)
(*   cwd    its working directory, mk: whether reading the cwd property    *)
(*          creates the directory                                          *)
(*   append its append_log argument                                        *)
(*   file   the archive of a "fetch" or "extract" operation                *)
(*   out    the path the operation produces when it succeeds (<<>>: none), *)
(*          for "rmtree" the tree it removes                               *)
(***************************************************************************)
Op(kind, task, cmd, cwd, mk, file, out) ==
    [kind |-> kind, task |-> task, cmd |-> cmd, cwd |-> cwd, mk |-> mk,
     append |-> FALSE, file |-> file, out |-> out]

SysOp(task, cmd, cwd, mk, out) == Op("sys", task, cmd, cwd, mk, "", out)

LocalOp(task, out) == Op("local", task, <<>>, <<>>, FALSE, "", out)

\* shutil.rmtree(path)
RmtreeOp(path) == Op("rmtree", "rmtree", <<>>, <<>>, FALSE, "", path)

\* mutant of BuildOrder: patch_sources called before extract_source_archives
BuildOrderPatchFirst ==
    <<"cleanup", "fetch_source_archives", "patch_sources", "extract_source_archives",
      "run_configuration_script", "run_build_command", "run_install_command",
      "verify">>

\* the calls of build(), in order
BuildOrder ==
    <<"cleanup", "fetch_source_archives", "extract_source_archives", "patch_sources",
      "run_configuration_script", "run_build_command", "run_install_command",
      "verify">>

\* Package.cleanup
CleanupOps(p) == << Op("cleanup", "cleanup", <<>>, <<>>, FALSE, "", <<>>) >>

\* Package.fetch_source_archives: one iteration per archive of the manifest
FetchOps(p) ==
    [i \in 1..Len(p.archives) |->
        Op("fetch", "fetch_source_archives", <<>>, <<>>, FALSE, p.archives[i],
           DownloadPath(p.archives[i]))]

\* Package.extract_source_archives: one extract_archive call per archive
ExtractSourceArchives(p) ==
    [i \in 1..Len(p.archives) |->
        Op("extract", "extract_archive", <<>>, SourceExtracted(p), TRUE,
           p.archives[i], SourceExtracted(p) \o <<p.archives[i]>>)]

\* the packages TclPackage.extract_source_archives removes from the sources
UnwantedTclPackages ==
    << <<"sqlite3.30.1.2">>, <<"tdbc1.1.1">>, <<"tdbcmysql1.1.1">>, <<"tdbcodbc1.1.1">>,
       <<"tdbcpostgres1.1.1">>, <<"tdbcsqlite3-1.1.1">> >>

\* extract_source_archives as the package's class resolves it
ExtractOps(p) ==
    IF Lookup(p.cls, "extract_source_archives") = "TclPackage"
    THEN ExtractSourceArchives(p)
         \o [i \in 1..Len(UnwantedTclPackages) |->
                RmtreeOp(MainSourceDirectoryPath(p) \o <<"pkgs">>
                         \o UnwantedTclPackages[i])]
    ELSE ExtractSourceArchives(p)

\* patch_sources: DbPackage patches atomic.h, ConquestPythonPackage patches
\* Setup.dist or setup.py, Package does nothing
PatchOps(p, isMac) ==
    LET c == Lookup(p.cls, "patch_sources")
    IN  CASE c = "DbPackage" ->
                << LocalOp("patch",
                           MainSourceDirectoryPath(p) \o <<"src", "dbinc", "atomic.h">>) >>
          [] c = "ConquestPythonPackage" ->
                << LocalOp("patch",
                           MainSourceDirectoryPath(p)
                           \o (IF isMac THEN <<"Modules", "Setup.dist">>
                               ELSE <<"setup.py">>)) >>
          [] c = "Package" -> << >>

\* configuration_script as the package's class resolves it; <<>> is None
ConfigurationScript(p, isMac) ==
    LET c == Lookup(p.cls, "configuration_script")
    IN  CASE c = "AutoconfMixin" -> MainSourceDirectoryPath(p) \o <<"configure">>
          [] c = "OpensslPackage" -> MainSourceDirectoryPath(p) \o <<"Configure">>
          [] c = "DbPackage" -> MainSourceDirectoryPath(p) \o <<"dist", "configure">>
          [] c \in {"TclPackage", "TkPackage"} ->
                IF isMac THEN << >>
                ELSE MainSourceDirectoryPath(p) \o <<"unix", "configure">>
          [] c = "Package" -> << >>

\* Package.arguments_to_configuration_script
ArgumentsToConfigurationScript(p, isMac) == <<"--prefix">> \o InstallDirectory(p, isMac)

\* mutant of RunConfigurationScript: the test for a missing script is left out
RunConfigurationScriptUnguarded(p, isMac) ==
    << LocalOp("chmod", << >>),
       SysOp("run_configuration_script",
             ConfigurationScript(p, isMac) \o ArgumentsToConfigurationScript(p, isMac),
             BuildDirectoryPath(p), BuildDirectoryCreated(p),
             BuildDirectoryPath(p) \o <<"Makefile">>) >>

\* Package.run_configuration_script
RunConfigurationScript(p, isMac) ==
    IF ConfigurationScript(p, isMac) = << >>
    THEN << >>
    ELSE << LocalOp("chmod", << >>),
            SysOp("run_configuration_script",
                  ConfigurationScript(p, isMac) \o ArgumentsToConfigurationScript(p, isMac),
                  BuildDirectoryPath(p), BuildDirectoryCreated(p),
                  BuildDirectoryPath(p) \o <<"Makefile">>) >>

\* run_configuration_script as the package's class resolves it
ConfigureOps(p, isMac) ==
    LET c == Lookup(p.cls, "run_configuration_script")
    IN  CASE c = "OpensslPackage" ->
                << SysOp("run_configuration_script",
                         <<"perl">> \o ConfigurationScript(p, isMac)
                             \o ArgumentsToConfigurationScript(p, isMac),
                         BuildDirectoryPath(p), BuildDirectoryCreated(p),
                         BuildDirectoryPath(p) \o <<"Makefile">>) >>
          [] c = "Package" -> RunConfigurationScript(p, isMac)

\* Package.update_dylib_id
UpdateDylibId(library_path, new_id) ==
    SysOp("update_dylib_id", <<"install_name_tool", "-id", new_id>> \o library_path,
          << >>, FALSE, << >>)

\* Package.change_dylib_lookup
ChangeDylibLookup(library_path, from_path, to_path) ==
    SysOp("change_dylib_lookup",
          <<"install_name_tool", "-change">> \o from_path \o to_path \o library_path,
          << >>, FALSE, << >>)

\* run_build_command of class c, running on package p
RECURSIVE RunBuildCommand(_, _, _)
RunBuildCommand(c, p, isMac) ==
    CASE c = "GnuMakeMixin" ->
            << SysOp("run_build_command", <<"make", "-j">>, BuildDirectoryPath(p),
                     BuildDirectoryCreated(p), BuildDirectoryPath(p) \o <<"objects">>) >>
      [] c = "TclPackage" ->
            IF isMac
            THEN LET tcl_build_dir == SourceExtracted(p) \o <<"build", "tcl">>
                 IN  << SysOp("run_build_command",
                              <<"make", "-j", "-sw", "deploy">>,
                              MainSourceDirectoryPath(p) \o <<"macosx">>, FALSE,
                              tcl_build_dir \o <<"Deployment">>),
                        ChangeDylibLookup(
                            tcl_build_dir \o <<"Deployment", "tclsh">>,
                            <<"Library", "Frameworks", "Tcl.framework", "Versions",
                              "8.6", "Tcl">>,
                            tcl_build_dir
                                \o <<"Deployment", "Tcl.framework", "Versions", "8.6",
                                     "Tcl">>) >>
            ELSE RunBuildCommand(Super(p.cls, c, "run_build_command"), p, isMac)
      [] c = "TkPackage" ->
            IF isMac
            THEN << >>
            ELSE RunBuildCommand(Super(p.cls, c, "run_build_command"), p, isMac)
      [] c = "FirstCapability" ->
            << SysOp("run_build_command", <<"make", "first">>, BuildDirectoryPath(p),
                     BuildDirectoryCreated(p), BuildDirectoryPath(p) \o <<"objects">>) >>
      [] c = "SecondCapability" ->
            << SysOp("run_build_command", <<"make", "second">>, BuildDirectoryPath(p),
                     BuildDirectoryCreated(p), BuildDirectoryPath(p) \o <<"objects">>) >>
      [] c = "Package" -> << >>

\* run_build_command as the package's class resolves it
BuildOps(p, isMac) == RunBuildCommand(Lookup(p.cls, "run_build_command"), p, isMac)

\* MakeInstallMixin.run_install_command
MakeInstallOps(p, isMac) ==
    << SysOp("run_install_command", <<"make", "install">>, BuildDirectoryPath(p),
             BuildDirectoryCreated(p), InstallDirectory(p, isMac) \o <<p.name>>) >>

\* run_install_command of class c, running on package p
RECURSIVE RunInstallCommand(_, _, _)
RunInstallCommand(c, p, isMac) ==
    CASE c = "MakeInstallMixin" -> MakeInstallOps(p, isMac)
      [] c = "OpensslPackage" ->
            LET dir == InstallDirectory(p, isMac)
                libcrypto == dir \o <<"lib", "libcrypto.1.1.dylib">>
                libssl == dir \o <<"lib", "libssl.1.1.dylib">>
            IN  RunInstallCommand(Super(p.cls, c, "run_install_command"), p, isMac)
                \o (IF isMac
                    THEN << UpdateDylibId(libcrypto, "libcrypto.1.1.dylib"),
                            UpdateDylibId(libssl, "libssl.1.1.dylib"),
                            ChangeDylibLookup(libssl, libcrypto,
                                              <<"@rpath/libcrypto.1.1.dylib">>) >>
                    ELSE << >>)
                \o << LocalOp("copy_staticlibs", dir \o <<"staticlibs">>) >>
      [] c = "TclPackage" ->
            IF isMac
            THEN << SysOp("run_install_command",
                          <<"make", "-j", "-sw", "install-deploy">>,
                          MainSourceDirectoryPath(p) \o <<"macosx">>, FALSE,
                          InstallDirectory(p, isMac) \o <<p.name>>),
                    LocalOp("copytree",
                            InstallDirectory(p, isMac)
                            \o <<"Library", "Frameworks", "Tcl.framework", "Resources",
                                 "Scripts", "msgcat">>) >>
            ELSE RunInstallCommand(Super(p.cls, c, "run_install_command"), p, isMac)
      [] c = "TkPackage" ->
            IF isMac
            THEN << SysOp("run_install_command",
                          <<"make", "-j", "-sw", "install-deploy">>,
                          MainSourceDirectoryPath(p) \o <<"macosx">>, FALSE,
                          InstallDirectory(p, isMac) \o <<p.name>>) >>
            ELSE RunInstallCommand(Super(p.cls, c, "run_install_command"), p, isMac)
      [] c = "Package" -> << >>

\* run_install_command as the package's class resolves it
InstallOps(p, isMac) == RunInstallCommand(Lookup(p.cls, "run_install_command"), p, isMac)

\* verify: OpensslPackage runs make test, Package does nothing
VerifyOps(p) ==
    LET c == Lookup(p.cls, "verify")
    IN  CASE c = "OpensslPackage" ->
                << SysOp("verify", <<"make", "test">>, BuildDirectoryPath(p),
                         BuildDirectoryCreated(p), << >>) >>
          [] c = "Package" -> << >>

\* the operations of stage number s of build() on package p
StageOps(p, s, isMac) ==
    CASE BuildOrder[s] = "cleanup" -> CleanupOps(p)
      [] BuildOrder[s] = "fetch_source_archives" -> FetchOps(p)
      [] BuildOrder[s] = "extract_source_archives" -> ExtractOps(p)
      [] BuildOrder[s] = "patch_sources" -> PatchOps(p, isMac)
      [] BuildOrder[s] = "run_configuration_script" -> ConfigureOps(p, isMac)
      [] BuildOrder[s] = "run_build_command" -> BuildOps(p, isMac)
      [] BuildOrder[s] = "run_install_command" -> InstallOps(p, isMac)
      [] BuildOrder[s] = "verify" -> VerifyOps(p)

\* mutant of ExtractCommand: the flags of .gz and .bz2 are exchanged
ExtractCommandFlagsSwapped(filename) ==
    LET suffixes == Range(PathSuffixes[filename])
        path == DownloadPath(filename)
    IN  IF ".zip" \in suffixes THEN <<"unzip", "-q", "-o">> \o path
        ELSE IF ".bz2" \in suffixes THEN <<"tar", "zxf">> \o path
        ELSE IF ".gz" \in suffixes THEN <<"tar", "jxf">> \o path
        ELSE IF ".tgz" \in suffixes THEN <<"tar", "zxf">> \o path
        ELSE IF ".xz" \in suffixes THEN <<"tar", "xf">> \o path
        ELSE << >>

\* Package.extract_archive: the command for an archive; <<>> when it raises
ExtractCommand(filename) ==
    LET suffixes == Range(PathSuffixes[filename])
        path == DownloadPath(filename)
    IN  IF ".zip" \in suffixes THEN <<"unzip", "-q", "-o">> \o path
        ELSE IF ".bz2" \in suffixes THEN <<"tar", "jxf">> \o path
        ELSE IF ".gz" \in suffixes THEN <<"tar", "zxf">> \o path
        ELSE IF ".tgz" \in suffixes THEN <<"tar", "zxf">> \o path
        ELSE IF ".xz" \in suffixes THEN <<"tar", "xf">> \o path
        ELSE << >>

(***************************************************************************)
(* Exceptions and the parts of system() both specifications use.           *)
(***************************************************************************)
NoError == [type |-> "none", returncode |-> 0, cmd |-> << >>, output |-> << >>]

Exception(type) == [type |-> type, returncode |-> 0, cmd |-> << >>, output |-> << >>]

\* subprocess.CalledProcessError(returncode=p.returncode, cmd=command, output=output)
CalledProcessError(rc, cmd, out) ==
    [type |-> "CalledProcessError", returncode |-> rc, cmd |-> cmd, output |-> out]

\* exit statuses of a subprocess; Popen reports death by signal N as -N
ExitCodes == {0, 1, 3, -9}

\* mutant of OpenLog: the log is always opened for appending
OpenLogAppending(old, append_log) == old

\* open(logfile, 'a' if append_log else 'w'): what is left of the old content
OpenLog(old, append_log) == IF append_log THEN old ELSE << >>

\* mutant of Raises: only a positive exit status raises
RaisesOnPositive(rc) == rc > 0

\* if p.returncode != 0: raise
Raises(rc) == rc # 0

(***************************************************************************)
(* build(): the caller, the stages and their operations.                   *)
(***************************************************************************)
\* ConquestPythonPackage.python_exe
PythonExe(isMac) == PythonBaseDirectory(isMac) \o <<"bin", "python">>

\* the statements of main() after the removal of the install directory
MainProgram ==
    [i \in 1..9 |->
        [call |-> "build", args |-> << >>,
         pkg |-> <<ZlibPackage, SqlitePackage, OpensslPackage, TclPackage, TkPackage,
                   ToglPackage, JpegPackage, DbPackage, ConquestPythonPackage>>[i]]]
    \o << [call |-> "ensure_pip", args |-> << >>, pkg |-> ConquestPythonPackage],
          [call |-> "pip_install", pkg |-> ConquestPythonPackage,
           args |-> <<"Pmw==2.0.1", "numpy==1.16.6", "PyInstaller==3.5",
                      "PyOpenGL==3.1.0", "nose==1.3.7", "Pillow==6.2.2",
                      "nose-parameterized==0.6.0">>],
          [call |-> "pip_install", pkg |-> ConquestPythonPackage,
           args |-> <<"bsddb3==6.2.6", "--install-option=--berkeley-db",
                      "--install-option=--lflags=-L">>],
          [call |-> "pip_install", pkg |-> ConquestPythonPackage,
           args |-> <<"apsw-3.31.1-r1.zip", "--global-option=fetch",
                      "--global-option=--version", "--global-option=3.31.1",
                      "--global-option=--all", "--global-option=build",
                      "--global-option=--enable-all-extensions">>] >>

\* ConquestPythonPackage.ensure_pip and pip_install: their system() calls
MainOps(statement, isMac) ==
    LET site == PythonBaseDirectory(isMac) \o <<"lib", "site-packages">>
    IN  IF statement.call = "ensure_pip"
        THEN << SysOp("ensure_pip", PythonExe(isMac) \o <<"-m", "ensurepip">>,
                      << >>, FALSE, site \o <<"pip">>),
                [SysOp("ensure_pip",
                       PythonExe(isMac)
                           \o <<"-m", "pip", "install", "--upgrade", "pip", "setuptools">>,
                       << >>, FALSE, site \o <<"setuptools">>)
                    EXCEPT !.append = TRUE] >>
        ELSE << SysOp("pip_install",
                      PythonExe(isMac) \o <<"-m", "pip", "install">> \o statement.args,
                      << >>, FALSE, site \o <<statement.args[1]>>) >>

Running == pc = "running"

\* main() is inside ensure_pip or pip_install
Calling == pc = "calling"

\* the method of the package that is running
CurrentCall == IF Calling THEN MainProgram[step].call ELSE BuildOrder[stage]

Ops == StageOps(pkg, stage, mac)

HasOp(kind) == Running /\ ip <= Len(Ops) /\ Ops[ip].kind = kind

\* an operation returns: build() goes on with the next one
Return(f) ==
    /\ fs' = f
    /\ ip' = ip + 1
    /\ UNCHANGED <<pc, error, stage>>

\* mutant of Raise: the exception is recorded and build() goes on
RaiseSwallowed(e, f) ==
    /\ fs' = f
    /\ error' = e
    /\ ip' = ip + 1
    /\ UNCHANGED <<pc, stage>>

\* mutant of Raise: build() removes the extracted and build trees on failure
RaiseAfterRollback(e, f) ==
    /\ fs' = RemoveTree(RemoveTree(f, SourceExtracted(pkg)), BuildDirectoryPath(pkg))
    /\ pc' = "failed"
    /\ error' = e
    /\ UNCHANGED <<ip, stage>>

\* an operation raises: nothing in build() or the stages catches it, so
\* build() is left with the file system as the operation left it
Raise(e, f) ==
    /\ fs' = f
    /\ pc' = "failed"
    /\ error' = e
    /\ UNCHANGED <<ip, stage>>

\* build() is entered on package p: its first stage is invoked
EnterBuild(p) ==
    /\ pkg' = p
    /\ pc' = "running"
    /\ stage' = 1
    /\ ip' = 1
    /\ error' = NoError
    /\ invoked' = << BuildOrder[1] >>
    /\ completed' = << >>
    /\ spawned' = << >>
    /\ touched' = {}
    /\ committed' = EmptyFs
    /\ netOps' = 0

\* a caller calls build() on a package
CallBuild(p) ==
    /\ pc \in {"idle", "done", "failed"}
    /\ nbuilds < MaxBuilds
    /\ nbuilds' = nbuilds + 1
    /\ EnterBuild(p)
    /\ UNCHANGED <<mac, mro, mainVars, patchVars, fs, fetched, sysVars>>

\* whether the process is unable to remove the entries of the tree at path
Locked(path) == \E l \in locked : IsPrefix(l, path)

\* mutant of RmtreeIgnoreErrors: nothing is removed
RmtreeRemovesNothing(f, path) == f

\* shutil.rmtree(path, ignore_errors=True): what cannot be removed stays
RmtreeIgnoreErrors(f, path) == IF Locked(path) THEN f ELSE RemoveTree(f, path)

\* mutant of CleanupFs: the whole extraction and build trees are removed
CleanupFsAllPackages(p, f) ==
    Mkdir(Mkdir(RemoveTree(RemoveTree(f, source_extracted_base), source_builds_base),
                SourceExtracted(p)),
          BuildDirectoryPath(p))

\* the file system after Package.cleanup: both rmtree calls ignore errors, and
\* reading source_extracted / build_directory_path (for rmtree and for the
\* print that follows it) creates the directory
CleanupFs(p, f) ==
    LET f1 == Mkdir(RmtreeIgnoreErrors(Mkdir(f, SourceExtracted(p)), SourceExtracted(p)),
                    SourceExtracted(p))
    IN  IF ~BuildDirectoryCreated(p)
        THEN RmtreeIgnoreErrors(f1, BuildDirectoryPath(p))
        ELSE Mkdir(RmtreeIgnoreErrors(Mkdir(f1, BuildDirectoryPath(p)),
                                      BuildDirectoryPath(p)),
                   BuildDirectoryPath(p))

Cleanup ==
    /\ HasOp("cleanup")
    /\ Return(CleanupFs(pkg, fs))
    /\ touched' = touched \cup ({SourceExtracted(pkg), BuildDirectoryPath(pkg)}
                                \cap DOMAIN CleanupFs(pkg, fs))
    /\ UNCHANGED <<mac, mro, mainVars, patchVars, pkg, invoked, completed, spawned, committed, netOps, fetched,
                   nbuilds, sysVars>>

\* mutant of FetchSkips: the presence check is missing
FetchNeverSkips(f, filename) == FALSE

\* if (source_downloads_base / filename).exists(): continue
FetchSkips(f, filename) == Exists(f, DownloadPath(filename))

\* one iteration of the loop of fetch_source_archives
Fetch ==
    /\ HasOp("fetch")
    /\ LET filename == Ops[ip].file
           path == DownloadPath(filename)
       IN  IF FetchSkips(fs, filename)
           THEN /\ Return(fs)
                /\ UNCHANGED <<netOps, touched>>
           ELSE /\ netOps' = netOps + 1
                /\ \/ /\ Return(WriteFile(fs, path, Complete))
                      /\ touched' = touched \cup {path}
                   \/ /\ Raise(Exception("URLError"), fs)
                      /\ UNCHANGED touched
                   \/ /\ Raise(Exception("OSError"), WriteFile(fs, path, Partial))
                      /\ touched' = touched \cup {path}
    /\ UNCHANGED <<mac, mro, mainVars, patchVars, pkg, invoked, completed, spawned, committed, fetched, nbuilds,
                   sysVars>>

\* Package.system(command, cwd, env, append_log) called by op.task, as one
\* step: the log named after the caller is opened; Popen either fails to start
\* the command, or the command runs, its output goes to the log, it exits with
\* some status, and a non-zero status raises
System(op, command) ==
    LET log == LogfilePath(pkg, op.task)
        f1 == IF op.mk THEN Mkdir(fs, op.cwd) ELSE fs
        opened == WriteFile(f1, log, OpenLog(Content(f1, log), op.append))
        f2 == WriteFile(f1, log, opened[log] \o <<command>>)
        written == {log} \cup (IF op.mk THEN {op.cwd} ELSE {})
    IN  \/ /\ Raise(Exception("OSError"), opened)
           /\ touched' = touched \cup written
           /\ UNCHANGED spawned
        \/ /\ spawned' = Append(spawned,
                                [stage |-> CurrentCall, task |-> op.task,
                                 cmd |-> command, cwd |-> op.cwd, log |-> log])
           /\ \E rc \in ExitCodes :
                IF Raises(rc)
                THEN \E left \in IF op.out = << >> THEN {FALSE} ELSE BOOLEAN :
                         /\ Raise(CalledProcessError(rc, command, << >>),
                                  IF left THEN WriteFile(f2, op.out, Partial) ELSE f2)
                         /\ touched' = touched \cup written
                                           \cup (IF left THEN {op.out} ELSE {})
                ELSE /\ Return(IF op.out = << >> THEN f2
                               ELSE WriteFile(f2, op.out, Complete))
                     /\ touched' = touched \cup written
                                       \cup (IF op.out = << >> THEN {} ELSE {op.out})

\* extract_archive for one archive of the manifest
ExtractArchive ==
    /\ HasOp("extract")
    /\ LET op == Ops[ip]
       IN  IF ExtractCommand(op.file) = << >>
           THEN /\ Raise(Exception("AttributeError"), Mkdir(fs, op.cwd))
                /\ touched' = touched \cup {op.cwd}
                /\ UNCHANGED spawned
           ELSE System(op, ExtractCommand(op.file))
    /\ UNCHANGED <<mac, mro, mainVars, patchVars, pkg, invoked, completed, committed, netOps, fetched, nbuilds,
                   sysVars>>

\* a stage (or a helper it calls) runs a command through system()
RunCommand ==
    /\ HasOp("sys")
    /\ System(Ops[ip], Ops[ip].cmd)
    /\ UNCHANGED <<mac, mro, mainVars, patchVars, pkg, invoked, completed, committed, netOps, fetched, nbuilds,
                   sysVars>>

\* a file operation done in Python (patch, os.stat and os.chmod, copyfile): it
\* raises when the file it needs is missing
LocalOperation ==
    /\ HasOp("local")
    /\ LET op == Ops[ip]
       IN  \/ /\ Return(IF op.out = << >> THEN fs
                        ELSE WriteFile(fs, op.out, << <<op.task>> >>))
              /\ touched' = touched \cup (IF op.out = << >> THEN {} ELSE {op.out})
           \/ /\ Raise(Exception("OSError"), fs)
              /\ UNCHANGED touched
    /\ UNCHANGED <<mac, mro, mainVars, patchVars, pkg, invoked, completed, spawned, committed, netOps, fetched,
                   nbuilds, sysVars>>

\* the stage returns: build() calls the next stage, or returns after verify
StageReturn ==
    /\ Running
    /\ ip > Len(Ops)
    /\ completed' = Append(completed, BuildOrder[stage])
    /\ committed' = [k \in touched \cap DOMAIN fs |-> fs[k]]
    /\ fetched' = IF BuildOrder[stage] = "fetch_source_archives"
                  THEN fetched \cup {pkg.archives}
                  ELSE fetched
    /\ IF stage = Len(BuildOrder)
       THEN /\ pc' = "done"
            /\ UNCHANGED <<stage, ip, invoked>>
       ELSE /\ stage' = stage + 1
            /\ ip' = 1
            /\ invoked' = Append(invoked, BuildOrder[stage + 1])
            /\ UNCHANGED pc
    /\ UNCHANGED <<mac, mro, mainVars, patchVars, fs, pkg, error, spawned, touched, netOps, nbuilds, sysVars>>

SysIdle ==
    /\ sysPc = "idle"
    /\ sysArgs = [command |-> << >>, task |-> "", append_log |-> FALSE]
    /\ proc = [state |-> "none", code |-> 0, wrote |-> 0, returncode |-> << >>]
    /\ pipe = << >>
    /\ retcode = << >>
    /\ output = << >>
    /\ sysError = NoError
    /\ emitted = << >>
    /\ logBefore = << >>
    /\ ncalls = 0

BuildIdle ==
    /\ pc = "idle"
    /\ pkg = ConquestPythonPackage
    /\ stage = 1
    /\ ip = 1
    /\ error = NoError
    /\ invoked = << >>
    /\ completed = << >>
    /\ spawned = << >>
    /\ touched = {}
    /\ committed = EmptyFs
    /\ netOps = 0
    /\ fetched = {}
    /\ nbuilds = 0

\* main() has not been entered; every tree can be removed by the process
MainIdle ==
    /\ locked = {}
    /\ step = 0
    /\ calls = << >>

PatchIdle ==
    /\ patchPc = "idle"
    /\ patchFile = << >>
    /\ substitutions = << >>
    /\ txt = << >>
    /\ applied = 0
    /\ original = << >>

\* after import: the trees exist and are empty as far as the model looks
Init ==
    /\ mro = MRO
    /\ mac \in BOOLEAN
    /\ fs = EmptyFs
    /\ BuildIdle
    /\ SysIdle
    /\ MainIdle
    /\ PatchIdle

Next ==
    \/ \E p \in Packages : CallBuild(p)
    \/ Cleanup
    \/ Fetch
    \/ ExtractArchive
    \/ RunCommand
    \/ LocalOperation
    \/ StageReturn

Spec == Init /\ [][Next]_vars

(***************************************************************************)
(* ClassSpec: one build() of a package of any of the classes, on a machine *)
(* where an earlier run may have left its trees behind and where the       *)
(* process may be unable to remove what is in them.                        *)
(***************************************************************************)
DeclaredPackages ==
    {ZlibPackage, OpensslPackage, TclPackage, TkPackage, ToglPackage, DbPackage,
     PairPackage, ReversedPairPackage}
    \cup {d \in DemoPackages : d.archives = <<"demo-1.0.tar.bz2", "extras.tgz">>}

\* what an earlier run of the script left: for every package a file in its
\* extraction directory and one in its build directory, and the downloads
LeftBehind ==
    LET dirs == {SourceExtracted(p) : p \in DeclaredPackages}
                    \cup {source_builds_base \o <<p.name>> : p \in DeclaredPackages}
        files == {d \o <<"old">> : d \in dirs}
    IN  [k \in dirs \cup files |-> IF k \in dirs THEN << >> ELSE Complete]

\* shutil.rmtree(path) in TclPackage.extract_source_archives: it raises when
\* the tree is missing or cannot be removed
Rmtree ==
    /\ HasOp("rmtree")
    /\ \/ /\ ~Locked(Ops[ip].out)
          /\ Return(RemoveTree(fs, Ops[ip].out))
       \/ Raise(Exception("OSError"), fs)
    /\ UNCHANGED <<mac, mro, mainVars, patchVars, pkg, invoked, completed, spawned, touched,
                   committed, netOps, fetched, nbuilds, sysVars>>

\* the first build() of the process
FirstBuild(p) ==
    /\ pc = "idle"
    /\ CallBuild(p)

ClassInit ==
    /\ mro = MRO
    /\ mac \in BOOLEAN
    /\ fs \in {EmptyFs, LeftBehind}
    /\ locked \in SUBSET {source_extracted_base, source_builds_base}
    /\ step = 0
    /\ calls = << >>
    /\ BuildIdle
    /\ SysIdle
    /\ PatchIdle

ClassNext ==
    \/ \E p \in DeclaredPackages : FirstBuild(p)
    \/ Cleanup
    \/ Fetch
    \/ ExtractArchive
    \/ Rmtree
    \/ RunCommand
    \/ LocalOperation
    \/ StageReturn

ClassSpec == ClassInit /\ [][ClassNext]_vars

(***************************************************************************)
(* MainSpec: main(), statement by statement.  An exception that leaves a   *)
(* statement leaves main(): nothing but the removal of the install         *)
(* directory is inside a try.                                              *)
(***************************************************************************)
\* what an earlier run of main() left: installed files, and for zlib the
\* downloaded archive and the extraction and build directories
MainLeftBehind ==
    LET install == PackageInstallDirectory(ConquestPythonPackage)
    IN  (install :> << >>)
        @@ (install \o <<"old">> :> Complete)
        @@ (DownloadPath(ZlibPackage.archives[1]) :> Complete)
        @@ (SourceExtracted(ZlibPackage) :> << >>)
        @@ (SourceExtracted(ZlibPackage) \o <<"old">> :> Complete)
        @@ (BuildDirectoryPath(ZlibPackage) :> << >>)
        @@ (BuildDirectoryPath(ZlibPackage) \o <<"old">> :> Complete)

\* try: shutil.rmtree(ConquestPythonPackage().install_directory)
\* except OSError: pass
MainRmtree ==
    /\ step = 0
    /\ \/ /\ Exists(fs, PackageInstallDirectory(ConquestPythonPackage))
          /\ fs' = RemoveTree(fs, PackageInstallDirectory(ConquestPythonPackage))
       \/ fs' = fs
    /\ step' = 1
    /\ UNCHANGED <<mac, mro, locked, calls, patchVars, buildVars, sysVars>>

\* the next statement of main() is executed: build(), ensure_pip() or
\* pip_install() is called on a new package object
MainCall ==
    /\ step \in 1..Len(MainProgram)
    /\ pc = "idle"
    /\ calls' = Append(calls, [event |-> "called", call |-> MainProgram[step].call,
                               name |-> MainProgram[step].pkg.name, ok |-> TRUE])
    /\ IF MainProgram[step].call = "build"
       THEN EnterBuild(MainProgram[step].pkg)
       ELSE /\ pkg' = MainProgram[step].pkg
            /\ pc' = "calling"
            /\ ip' = 1
            /\ error' = NoError
            /\ spawned' = << >>
            /\ touched' = {}
            /\ committed' = EmptyFs
            /\ UNCHANGED <<stage, invoked, completed, netOps>>
    /\ UNCHANGED <<mac, mro, fs, locked, step, patchVars, fetched, nbuilds, sysVars>>

\* a system() call of ensure_pip or pip_install
MainSystem ==
    /\ Calling
    /\ ip <= Len(MainOps(MainProgram[step], mac))
    /\ System(MainOps(MainProgram[step], mac)[ip], MainOps(MainProgram[step], mac)[ip].cmd)
    /\ UNCHANGED <<mac, mro, mainVars, patchVars, pkg, invoked, completed, committed, netOps,
                   fetched, nbuilds, sysVars>>

\* ensure_pip or pip_install returns
MainReturn ==
    /\ Calling
    /\ ip > Len(MainOps(MainProgram[step], mac))
    /\ pc' = "done"
    /\ UNCHANGED <<mac, mro, fs, mainVars, patchVars, pkg, stage, ip, error, invoked,
                   completed, spawned, touched, committed, netOps, fetched, nbuilds,
                   sysVars>>

\* mutant of MainNextStatement: main() goes on after a statement that raised
MainNextStatementCatching ==
    /\ step >= 1
    /\ pc \in {"done", "failed"}
    /\ calls' = Append(calls, [event |-> "returned", call |-> MainProgram[step].call,
                               name |-> MainProgram[step].pkg.name,
                               ok |-> /\ pc = "done"
                                      /\ error = NoError
                                      /\ MainProgram[step].call = "build" =>
                                             completed = BuildOrder])
    /\ step' = step + 1
    /\ pc' = "idle"
    /\ UNCHANGED <<mac, mro, fs, locked, patchVars, pkg, stage, ip, error, invoked,
                   completed, spawned, touched, committed, netOps, fetched, nbuilds,
                   sysVars>>

\* the call returned: main() goes on with the statement after it
MainNextStatement ==
    /\ step >= 1
    /\ pc = "done"
    /\ calls' = Append(calls, [event |-> "returned", call |-> MainProgram[step].call,
                               name |-> MainProgram[step].pkg.name,
                               ok |-> /\ pc = "done"
                                      /\ error = NoError
                                      /\ MainProgram[step].call = "build" =>
                                             completed = BuildOrder])
    /\ step' = step + 1
    /\ pc' = "idle"
    /\ UNCHANGED <<mac, mro, fs, locked, patchVars, pkg, stage, ip, error, invoked,
                   completed, spawned, touched, committed, netOps, fetched, nbuilds,
                   sysVars>>

MainInit ==
    /\ mro = MRO
    /\ mac \in BOOLEAN
    /\ fs \in {EmptyFs, MainLeftBehind}
    /\ MainIdle
    /\ BuildIdle
    /\ SysIdle
    /\ PatchIdle

MainNext ==
    \/ MainRmtree
    \/ MainCall
    \/ MainSystem
    \/ MainReturn
    \/ MainNextStatement
    \/ Cleanup
    \/ Fetch
    \/ ExtractArchive
    \/ Rmtree
    \/ RunCommand
    \/ LocalOperation
    \/ StageReturn

MainSpec == MainInit /\ [][MainNext]_vars

(***************************************************************************)
(* PatchSpec: Package.patch, statement by statement, on a text of up to    *)
(* MaxText characters with up to MaxSubs substitutions.  A text is the     *)
(* sequence of its characters.                                             *)
(***************************************************************************)
\* the characters of the file before patch; a substitution may bring in B
Alphabet == {"F", "O"}

\* the texts of n characters or fewer
Texts(n) == UNION {[1..k -> Alphabet] : k \in 0..n}

\* the (old, new) pairs patch is called with
Pairs ==
    { [old |-> <<"F", "O">>, new |-> <<"B">>],
      [old |-> <<"F">>, new |-> <<"O">>],
      [old |-> <<"O">>, new |-> <<"F">>],
      [old |-> <<"O", "O">>, new |-> <<"O">>],
      [old |-> <<"B">>, new |-> << >>],
      [old |-> <<"O">>, new |-> <<"O", "O">>] }

\* mutant of Replace: only the first occurrence is replaced
RECURSIVE ReplaceFirstOnly(_, _, _)
ReplaceFirstOnly(t, old, new) ==
    IF Len(t) < Len(old)
    THEN t
    ELSE IF SubSeq(t, 1, Len(old)) = old
    THEN new \o SubSeq(t, Len(old) + 1, Len(t))
    ELSE <<t[1]>> \o ReplaceFirstOnly(Tail(t), old, new)

\* str.replace(old, new) for a non-empty old: the text is scanned from the
\* left, an occurrence found is replaced and the scan goes on after it
RECURSIVE Replace(_, _, _)
Replace(t, old, new) ==
    IF Len(t) < Len(old)
    THEN t
    ELSE IF SubSeq(t, 1, Len(old)) = old
    THEN new \o Replace(SubSeq(t, Len(old) + 1, Len(t)), old, new)
    ELSE <<t[1]>> \o Replace(Tail(t), old, new)

\* with open(fname) as read_file: txt = read_file.read()
PatchRead ==
    /\ patchPc = "called"
    /\ txt' = patchFile
    /\ patchPc' = "loop"
    /\ UNCHANGED <<mac, mro, fs, buildVars, sysVars, mainVars, patchFile, substitutions,
                   applied, original>>

\* for (old, new) in subs: txt = txt.replace(old, new)
PatchSubstitute ==
    /\ patchPc = "loop"
    /\ applied < Len(substitutions)
    /\ txt' = Replace(txt, substitutions[applied + 1].old,
                      substitutions[applied + 1].new)
    /\ applied' = applied + 1
    /\ UNCHANGED <<mac, mro, fs, buildVars, sysVars, mainVars, patchPc, patchFile,
                   substitutions, original>>

\* with open(fname, 'w') as out: out.write(txt)
PatchWrite ==
    /\ patchPc = "loop"
    /\ applied = Len(substitutions)
    /\ patchFile' = txt
    /\ patchPc' = "written"
    /\ UNCHANGED <<mac, mro, fs, buildVars, sysVars, mainVars, substitutions, txt, applied,
                   original>>

\* patch(fname, *subs) is called on a file; patch does not read mac
PatchInit ==
    /\ mro = MRO
    /\ mac = FALSE
    /\ fs = EmptyFs
    /\ BuildIdle
    /\ SysIdle
    /\ MainIdle
    /\ patchPc = "called"
    /\ patchFile \in Texts(MaxText)
    /\ substitutions \in UNION {[1..k -> Pairs] : k \in 0..MaxSubs}
    /\ txt = << >>
    /\ applied = 0
    /\ original = patchFile

PatchNext ==
    \/ PatchRead
    \/ PatchSubstitute
    \/ PatchWrite

PatchSpec == PatchInit /\ [][PatchNext]_vars

(***************************************************************************)
(* Package.system(), statement by statement (SysSpec).  The callers are    *)
(* the three system() calls of ensure_pip and pip_install; the subprocess  *)
(* writes up to MaxLines lines to the pipe and exits, at its own pace.     *)
(***************************************************************************)
\* the system() calls of ConquestPythonPackage.ensure_pip and pip_install
SysCalls ==
    { [task |-> "ensure_pip", command |-> <<"python", "-m", "ensurepip">>,
       append_log |-> FALSE],
      [task |-> "ensure_pip",
       command |-> <<"python", "-m", "pip", "install", "--upgrade", "pip", "setuptools">>,
       append_log |-> TRUE],
      [task |-> "pip_install", command |-> <<"python", "-m", "pip", "install">>,
       append_log |-> FALSE] }

\* line k written by the subprocess of call c
Line(c, k) == <<"call", ToString(c), "line", ToString(k)>>

SysLog == LogfilePath(ConquestPythonPackage, sysArgs.task)

SysFinished == sysPc \in {"returned", "raised"}

\* system() is called: the log is opened and the subprocess started
SystemCall(call) ==
    /\ sysPc \in {"idle", "returned", "raised"}
    /\ ncalls < MaxCalls
    /\ ncalls' = ncalls + 1
    /\ sysArgs' = call
    /\ LET log == LogfilePath(ConquestPythonPackage, call.task)
       IN  /\ logBefore' = Content(fs, log)
           /\ fs' = WriteFile(fs, log, OpenLog(Content(fs, log), call.append_log))
    /\ proc' = [state |-> "running", code |-> 0, wrote |-> 0, returncode |-> << >>]
    /\ pipe' = << >>
    /\ retcode' = << >>
    /\ output' = << >>
    /\ emitted' = << >>
    /\ sysError' = NoError
    /\ sysPc' = "poll"
    /\ UNCHANGED <<mac, mro, mainVars, patchVars, buildVars>>

\* system() is called, the log is opened and Popen raises: the command could
\* not be started
SystemCallFails(call) ==
    /\ sysPc \in {"idle", "returned", "raised"}
    /\ ncalls < MaxCalls
    /\ ncalls' = ncalls + 1
    /\ sysArgs' = call
    /\ LET log == LogfilePath(ConquestPythonPackage, call.task)
       IN  /\ logBefore' = Content(fs, log)
           /\ fs' = WriteFile(fs, log, OpenLog(Content(fs, log), call.append_log))
    /\ proc' = [state |-> "none", code |-> 0, wrote |-> 0, returncode |-> << >>]
    /\ pipe' = << >>
    /\ retcode' = << >>
    /\ output' = << >>
    /\ emitted' = << >>
    /\ sysError' = Exception("OSError")
    /\ sysPc' = "raised"
    /\ UNCHANGED <<mac, mro, mainVars, patchVars, buildVars>>

\* the subprocess writes a line to its stdout or stderr
ProcWrite ==
    /\ proc.state = "running"
    /\ proc.wrote < MaxLines
    /\ proc' = [proc EXCEPT !.wrote = @ + 1]
    /\ pipe' = Append(pipe, Line(ncalls, proc.wrote + 1))
    /\ emitted' = Append(emitted, Line(ncalls, proc.wrote + 1))
    /\ UNCHANGED <<mac, mro, mainVars, patchVars, fs, buildVars, sysPc, sysArgs, retcode, output, sysError,
                   logBefore, ncalls>>

\* the subprocess exits
ProcExit(rc) ==
    /\ proc.state = "running"
    /\ proc' = [proc EXCEPT !.state = "exited", !.code = rc]
    /\ UNCHANGED <<mac, mro, mainVars, patchVars, fs, buildVars, sysPc, sysArgs, pipe, retcode, output, sysError,
                   emitted, logBefore, ncalls>>

\* retcode = p.poll()
Poll ==
    /\ sysPc = "poll"
    /\ LET r == IF proc.state = "exited" THEN <<proc.code>> ELSE << >>
       IN  /\ retcode' = r
           /\ proc' = [proc EXCEPT !.returncode = r]
    /\ sysPc' = "readline"
    /\ UNCHANGED <<mac, mro, mainVars, patchVars, fs, buildVars, sysArgs, pipe, output, sysError, emitted,
                   logBefore, ncalls>>

\* mutant of Readline: the loop is left after the first line, whatever poll()
\* returned
ReadlineAlwaysBreaks ==
    /\ sysPc = "readline"
    /\ pipe # << >> \/ proc.state = "exited"
    /\ LET l == IF pipe # << >> THEN << Head(pipe) >> ELSE << >>
       IN  /\ output' = output \o l
           /\ fs' = WriteFile(fs, SysLog, Content(fs, SysLog) \o l)
           /\ pipe' = IF pipe # << >> THEN Tail(pipe) ELSE pipe
    /\ sysPc' = "after"
    /\ UNCHANGED <<mac, mro, mainVars, patchVars, buildVars, sysArgs, proc, retcode, sysError,
                   emitted, logBefore, ncalls>>

\* l = p.stdout.readline(): the next unread line, or '' at end of file; it
\* blocks while the pipe is empty and the subprocess holds it open.  Then
\* output += l, f.write(l), and the loop ends if retcode is not None
Readline ==
    /\ sysPc = "readline"
    /\ pipe # << >> \/ proc.state = "exited"
    /\ LET l == IF pipe # << >> THEN << Head(pipe) >> ELSE << >>
       IN  /\ output' = output \o l
           /\ fs' = WriteFile(fs, SysLog, Content(fs, SysLog) \o l)
           /\ pipe' = IF pipe # << >> THEN Tail(pipe) ELSE pipe
    /\ sysPc' = IF retcode # << >> THEN "after" ELSE "poll"
    /\ UNCHANGED <<mac, mro, mainVars, patchVars, buildVars, sysArgs, proc, retcode, sysError, emitted,
                   logBefore, ncalls>>

\* after the loop: assert p.returncode is not None, raise if it is not 0
SystemExit ==
    /\ sysPc = "after"
    /\ IF proc.returncode = << >>
       THEN /\ sysPc' = "raised"
            /\ sysError' = Exception("AssertionError")
       ELSE IF Raises(proc.returncode[1])
       THEN /\ sysPc' = "raised"
            /\ sysError' = CalledProcessError(proc.returncode[1], sysArgs.command, output)
       ELSE /\ sysPc' = "returned"
            /\ UNCHANGED sysError
    /\ UNCHANGED <<mac, mro, mainVars, patchVars, fs, buildVars, sysArgs, proc, pipe, retcode, output, emitted,
                   logBefore, ncalls>>

SysInit ==
    /\ mro = MRO
    /\ mac \in BOOLEAN
    /\ fs = EmptyFs
    /\ BuildIdle
    /\ SysIdle
    /\ MainIdle
    /\ PatchIdle

SysNext ==
    \/ \E call \in SysCalls : SystemCall(call)
    \/ \E call \in SysCalls : SystemCallFails(call)
    \/ ProcWrite
    \/ \E rc \in ExitCodes : ProcExit(rc)
    \/ Poll
    \/ Readline
    \/ SystemExit

SysSpec == SysInit /\ [][SysNext]_vars

\* SysSpec where the thread that runs system() is not stopped for ever: a
\* statement of system() that can be executed is executed
SysFairSpec ==
    /\ SysSpec
    /\ WF_vars(Poll)
    /\ WF_vars(Readline)
    /\ WF_vars(SystemExit)

(***************************************************************************)
(* The claims.                                                             *)
(***************************************************************************)
\* the stage order the specification states
ClaimedStageOrder ==
    <<"cleanup", "fetch_source_archives", "extract_source_archives", "patch_sources",
      "run_configuration_script", "run_build_command", "run_install_command",
      "verify">>

\* C1: one build() invokes the stages in the order cleanup, fetch, extract,
\* patch, configure, build, install, verify; a stage is invoked only when all
\* earlier stages have returned, no stage is invoked twice, and a build()
\* that returns has run all eight.
C1_StageOrder ==
    pc # "idle" =>
        /\ IsPrefix(invoked, ClaimedStageOrder)
        /\ IsPrefix(completed, invoked)
        /\ Len(invoked) <= Len(completed) + 1
        /\ (Running => Len(invoked) = Len(completed) + 1)
        /\ (pc = "done" => completed = ClaimedStageOrder)

\* C1 witness: build() of OpensslPackage on macOS has returned, all eight
\* stages done, each of them having run commands or file operations
C1_Witness ==
    /\ pc = "done"
    /\ pkg = OpensslPackage
    /\ mac
    /\ Len(spawned) = 8

\* C2: a stage that fails makes build() fail with that error, and no later
\* stage is invoked; build() returns only when all eight stages returned
\* without error; after a failing run_build_command, run_install_command has
\* not been invoked and none of its commands has run.
C2_FailureStopsBuild ==
    /\ (error # NoError => pc = "failed")
    /\ (pc = "failed" =>
            /\ error # NoError
            /\ IsPrefix(invoked, ClaimedStageOrder)
            /\ invoked = Append(completed, ClaimedStageOrder[Len(invoked)]))
    /\ (pc = "done" => error = NoError /\ completed = ClaimedStageOrder)
    /\ (pc = "failed" /\ Last(invoked) = "run_build_command" =>
            /\ "run_install_command" \notin Range(invoked)
            /\ \A i \in 1..Len(spawned) : spawned[i].task # "run_install_command")

\* C2 witness: OpensslPackage's make test exits with status 1 and build() has
\* failed in verify, after seven stages that returned
C2_Witness ==
    /\ pc = "failed"
    /\ pkg = OpensslPackage
    /\ Last(invoked) = "verify"
    /\ Len(completed) = 7
    /\ error = CalledProcessError(1, <<"make", "test">>, << >>)

\* C3: when build() has failed, every path written by the stages that had
\* returned still exists and holds what it held when the last of them
\* returned: nothing is rolled back or deleted.
C3_NoRollback ==
    pc = "failed" =>
        \A k \in DOMAIN committed : k \in DOMAIN fs /\ fs[k] = committed[k]

\* C3 witness: build() of OpensslPackage failed in verify; the download, the
\* extracted tree, the build tree, the installed files and the logs of the
\* earlier stages are there
C3_Witness ==
    /\ pc = "failed"
    /\ pkg = OpensslPackage
    /\ Last(invoked) = "verify"
    /\ DownloadPath("openssl-1.1.1f.tar.gz") \in DOMAIN committed
    /\ SourceExtracted(pkg) \o <<"openssl-1.1.1f.tar.gz">> \in DOMAIN committed
    /\ BuildDirectoryPath(pkg) \o <<"objects">> \in DOMAIN committed
    /\ InstallDirectory(pkg, mac) \o <<"staticlibs">> \in DOMAIN committed
    /\ LogfilePath(pkg, "run_install_command") \in DOMAIN committed

\* C4: system() raises exactly when the exit status of its subprocess is not
\* 0; the error then carries that exit status and the command that was run;
\* with exit status 0 system() returns normally.
C4_RaisesIffNonZeroExit ==
    /\ (sysPc = "returned" => proc.state = "exited" /\ proc.code = 0 /\ sysError = NoError)
    /\ (sysPc = "raised" /\ proc.state # "none" =>
            /\ proc.state = "exited"
            /\ proc.code # 0
            /\ sysError.type = "CalledProcessError"
            /\ sysError.returncode = proc.code
            /\ sysError.cmd = sysArgs.command)

\* C4 witness: the command exited with status 3 and system() raised an error
\* with return code 3
C4_Witness ==
    /\ sysPc = "raised"
    /\ proc.state = "exited"
    /\ proc.code = 3
    /\ sysError.returncode = 3

\* C5: when system() has returned or raised, what it wrote to the log and
\* captured as output (and put in the error it raised) is exactly the
\* sequence of lines the subprocess wrote, in the order it wrote them.
C5_LogIsWholeOutput ==
    SysFinished /\ proc.state # "none" =>
        /\ output = emitted
        /\ Content(fs, SysLog) = OpenLog(logBefore, sysArgs.append_log) \o emitted
        /\ (sysPc = "raised" => sysError.output = emitted)

\* C6: when system() has returned or raised, the log holds the output of this
\* call alone if append_log is false, and its previous content followed by
\* the output of this call if append_log is true; so after a call that does
\* not append, no line of an earlier call on the same log is left.  (The
\* output of the call is what the call captured in its variable output.)
C6_OverwriteUnlessAppend ==
    SysFinished =>
        /\ (~sysArgs.append_log =>
                /\ Content(fs, SysLog) = output
                /\ \A i \in 1..Len(Content(fs, SysLog)) :
                        Content(fs, SysLog)[i][2] = ToString(ncalls))
        /\ (sysArgs.append_log => Content(fs, SysLog) = logBefore \o output)

\* C6 witness: a call that does not append has finished on a log that held
\* lines of an earlier call, and has written lines of its own
C6_Witness ==
    /\ SysFinished
    /\ ~sysArgs.append_log
    /\ logBefore # << >>
    /\ output # << >>

\* C6, second case reached: an appending call has finished after an earlier
\* call left lines in the same log
C6_AppendReached ==
    /\ SysFinished
    /\ sysArgs.append_log
    /\ logBefore # << >>
    /\ output # << >>

\* C7: every command run during stage S of package P is logged to the log
\* file of (P, S), also when a helper called from the stage runs it.
C7_LogNamedByStage ==
    \A i \in 1..Len(spawned) : spawned[i].log = LogfilePath(pkg, spawned[i].stage)

\* the fetch stage is running on a manifest whose fetch stage returned before
RefetchRunning ==
    /\ Running
    /\ BuildOrder[stage] = "fetch_source_archives"
    /\ pkg.archives \in fetched

\* C8: fetch_source_archives downloads a file only if it is absent from the
\* download cache; run again on a manifest on which it has completed once, it
\* attempts no download, leaves the download cache unchanged and does not
\* fail.
C8_FetchIdempotent ==
    [][ /\ (netOps' > netOps =>
                /\ HasOp("fetch")
                /\ ~Exists(fs, source_downloads_base \o <<Ops[ip].file>>))
        /\ (RefetchRunning =>
                /\ netOps' = netOps
                /\ Downloads(fs') = Downloads(fs)
                /\ pc' = "running") ]_vars

\* C8 witness: a second run of fetch_source_archives on a two-archive manifest
\* has gone through the whole manifest without a download
C8_Witness ==
    /\ RefetchRunning
    /\ Len(pkg.archives) = 2
    /\ ip > Len(Ops)
    /\ netOps = 0
    /\ \A i \in 1..Len(pkg.archives) : Exists(fs, DownloadPath(pkg.archives[i]))

\* the unpack command the specification states for an archive, by the end of
\* its name; <<>> for an unsupported suffix
ClaimedUnpack(filename) ==
    LET sfx == PathSuffixes[filename]
        last == sfx[Len(sfx)]
        tar == Len(sfx) >= 2 /\ sfx[Len(sfx) - 1] = ".tar"
    IN  CASE last = ".zip" -> <<"unzip">>
          [] last = ".tgz" \/ (tar /\ last = ".gz") -> <<"tar", "zxf">>
          [] tar /\ last = ".bz2" -> <<"tar", "jxf">>
          [] tar /\ last = ".xz" -> <<"tar", "xf">>
          [] OTHER -> << >>

IsExtractCommand(c) == c.stage = "extract_source_archives"

C9_ZipReached ==
    /\ pkg = ToglPackage
    /\ "extract_source_archives" \in Range(completed)
    /\ spawned[1].cmd = <<"unzip", "-q", "-o", "downloads", "Togl-windows-ci.zip">>

\* C10: when build() fails because the manifest holds an archive with an
\* unrecognized suffix, no external process has been spawned by this build().
C10_NoProcessBeforeConfigurationError ==
    pc = "failed" /\ error.type = "AttributeError" => spawned = << >>

\* C10, the part the code keeps: an archive with an unrecognized suffix is
\* never skipped, the extract stage does not return
C10_BadArchiveNotSkipped ==
    (\E i \in 1..Len(pkg.archives) : ClaimedUnpack(pkg.archives[i]) = << >>) =>
        "extract_source_archives" \notin Range(completed)

\* C11: for a package whose configuration_script is None (the base Package,
\* Tcl and Tk on macOS) run_configuration_script is a no-op: the only step of
\* the stage is its return, which starts no process, leaves every file and log
\* as it was, raises nothing and is followed by run_build_command.
C11_NoScriptNoOp ==
    [][(/\ Running
        /\ BuildOrder[stage] = "run_configuration_script"
        /\ \/ pkg.cls = "Package"
           \/ pkg.cls \in {"TclPackage", "TkPackage"} /\ mac)
       => /\ fs' = fs
          /\ spawned' = spawned
          /\ error' = NoError
          /\ pc' = "running"
          /\ completed' = Append(completed, "run_configuration_script")
          /\ invoked' = Append(invoked, "run_build_command")]_vars

\* C11 witness: TclPackage on macOS has gone through the configuration stage
\* into run_build_command with the one command of its extraction
C11_Witness ==
    /\ pkg = TclPackage
    /\ mac
    /\ Last(invoked) = "run_build_command"
    /\ Len(spawned) = 1
    /\ ip = 1

\* C11, the base Package reached: a direct subclass of Package is past the
\* configuration stage
C11_BaseReached ==
    /\ pkg.cls = "Package"
    /\ "run_configuration_script" \in Range(completed)

\* the command of the run_build_command of a capability of the two test
\* packages
CapabilityCommand(c) ==
    IF c = "FirstCapability" THEN <<"make", "first">> ELSE <<"make", "second">>

\* the commands the stage run_build_command of this build() has started
BuildCommands ==
    SelectSeq(spawned, LAMBDA r : r.stage = "run_build_command")

\* C12: when a package lists two capabilities before Package and both define
\* run_build_command, the implementation build() executes is that of the
\* later-declared capability.
C12_LaterCapabilityWins ==
    pkg.cls \in {"PairPackage", "ReversedPairPackage"} =>
        \A i \in 1..Len(BuildCommands) :
            BuildCommands[i].cmd = CapabilityCommand(Bases[pkg.cls][2])

\* C12, what the code does: the implementation executed is that of the
\* capability listed first
C12_EarlierCapabilityWins ==
    pkg.cls \in {"PairPackage", "ReversedPairPackage"} =>
        /\ \A i \in 1..Len(BuildCommands) :
              BuildCommands[i].cmd = CapabilityCommand(Bases[pkg.cls][1])
        /\ "run_build_command" \in Range(completed) => Len(BuildCommands) = 1

\* C12, the case reached: PairPackage has run its build stage
C12_PairBuilt ==
    /\ pkg.cls = "PairPackage"
    /\ "run_build_command" \in Range(completed)

\* the commands stage s of this build() has started
StageCommands(s) ==
    LET started == SelectSeq(spawned, LAMBDA r : r.stage = s)
    IN  [i \in 1..Len(started) |-> started[i].cmd]

Returned(s) == s \in Range(completed)

\* C13: a stage the package's own class defines is the one build() executes,
\* whatever capabilities are listed (OpensslPackage configures through perl
\* with its own script Configure and verifies with make test, TclPackage and TkPackage build their own way
\* on macOS), and a capability's stage is executed instead of the no-op of
\* Package (make -j of GnuMakeMixin, make install of MakeInstallMixin), which
\* is what runs when neither defines the stage.
C13_OwnStageWins ==
    /\ pkg = OpensslPackage /\ Returned("run_configuration_script") =>
          /\ Len(StageCommands("run_configuration_script")) = 1
          /\ StageCommands("run_configuration_script")[1][1] = "perl"
          /\ "Configure" \in Range(StageCommands("run_configuration_script")[1])
    /\ pkg = OpensslPackage /\ Returned("verify") =>
          StageCommands("verify") = << <<"make", "test">> >>
    /\ pkg = TclPackage /\ mac /\ Returned("run_build_command") =>
          /\ Len(StageCommands("run_build_command")) = 2
          /\ StageCommands("run_build_command")[1] = <<"make", "-j", "-sw", "deploy">>
    /\ pkg = TkPackage /\ mac /\ Returned("run_build_command") =>
          StageCommands("run_build_command") = << >>
    /\ pkg \in {TclPackage, TkPackage} /\ mac /\ Returned("run_install_command") =>
          StageCommands("run_install_command")
              = << <<"make", "-j", "-sw", "install-deploy">> >>
    /\ pkg \in {ZlibPackage, ToglPackage} /\ Returned("run_build_command") =>
          StageCommands("run_build_command") = << <<"make", "-j">> >>
    /\ pkg \in {ZlibPackage, ToglPackage, DbPackage}
          /\ Returned("run_install_command") =>
          StageCommands("run_install_command") = << <<"make", "install">> >>
    /\ pkg.cls \in {"DbPackage", "Package"} /\ Returned("run_build_command") =>
          StageCommands("run_build_command") = << >>
    /\ pkg.cls = "Package" /\ Returned("run_install_command") =>
          StageCommands("run_install_command") = << >>

\* C13 witness: build() of OpensslPackage has returned after its own
\* configuration, installation and verification
C13_Witness ==
    /\ pkg = OpensslPackage
    /\ pc = "done"
    /\ StageCommands("run_configuration_script")[1][1] = "perl"

\* C13, the other cases reached: TclPackage on macOS and ZlibPackage have
\* built, DbPackage has installed
C13_TclReached == pkg = TclPackage /\ mac /\ Returned("run_build_command")

C13_ZlibReached == pkg = ZlibPackage /\ Returned("run_build_command")

C13_DbReached == pkg = DbPackage /\ Returned("run_install_command")

\* the paths of file system f at or below path
Tree(f, path) == {k \in DOMAIN f : IsPrefix(path, k)}

\* the one step of cleanup is taken
CleaningUp == HasOp("cleanup") /\ ip' # ip

\* cleanup does not raise and build() goes on to fetch_source_archives
CleanupNeverFails ==
    /\ Running /\ BuildOrder[stage] = "cleanup" =>
          /\ pc' = "running"
          /\ error' = NoError
          /\ stage' # stage => invoked' = <<"cleanup", "fetch_source_archives">>

\* C14: cleanup never fails build(): whether or not the directories exist or
\* can be removed it does not raise and build() goes on to
\* fetch_source_archives; and when removal is possible the extraction
\* directory and the build directory are gone after cleanup.
C14_DirectoriesGone ==
    [][/\ CleanupNeverFails
       /\ CleaningUp =>
            /\ ~Locked(SourceExtracted(pkg)) => Tree(fs', SourceExtracted(pkg)) = {}
            /\ ~Locked(BuildDirectoryPath(pkg)) =>
                   Tree(fs', BuildDirectoryPath(pkg)) = {}]_vars

\* C14 as the code has it: cleanup never fails build(), and when removal is
\* possible nothing is left below the extraction directory and the build
\* directory; the extraction directory itself is there again, empty, as is the
\* build directory unless it lies inside the extraction directory.
C14_CleanupEmpties ==
    [][/\ CleanupNeverFails
       /\ CleaningUp =>
            /\ ~Locked(SourceExtracted(pkg)) =>
                   Tree(fs', SourceExtracted(pkg)) = {SourceExtracted(pkg)}
            /\ ~Locked(BuildDirectoryPath(pkg)) =>
                   Tree(fs', BuildDirectoryPath(pkg))
                       = IF IsPrefix(SourceExtracted(pkg), BuildDirectoryPath(pkg))
                         THEN {}
                         ELSE {BuildDirectoryPath(pkg)}
            /\ \A k \in Tree(fs', SourceExtracted(pkg))
                        \cup Tree(fs', BuildDirectoryPath(pkg)) :
                   k \in DOMAIN fs => fs'[k] = fs[k]]_vars

\* C14 witness: cleanup of ZlibPackage has returned where an earlier run left
\* files in both directories and they could be removed: the files are gone,
\* the directories are there, those of the other packages are as they were
C14_Witness ==
    /\ pkg = ZlibPackage
    /\ completed = <<"cleanup">>
    /\ locked = {}
    /\ Tree(fs, SourceExtracted(pkg)) = {SourceExtracted(pkg)}
    /\ Tree(fs, BuildDirectoryPath(pkg)) = {BuildDirectoryPath(pkg)}
    /\ Exists(fs, SourceExtracted(DbPackage) \o <<"old">>)

\* C14, the other cases reached: cleanup has returned where nothing could be
\* removed, and where there was nothing to remove
C14_LockedReached ==
    /\ completed = <<"cleanup">>
    /\ Locked(SourceExtracted(pkg))
    /\ Locked(BuildDirectoryPath(pkg))
    /\ Exists(fs, SourceExtracted(pkg) \o <<"old">>)
    /\ Last(invoked) = "fetch_source_archives"

C14_MissingReached ==
    /\ completed = <<"cleanup">>
    /\ ~Exists(fs, source_builds_base \o <<"db">>)
    /\ Last(invoked) = "fetch_source_archives"

\* the order of the steps of main() the specification states
ClaimedMainOrder ==
    << <<"build", "zlib">>, <<"build", "sqlite">>, <<"build", "openssl">>,
       <<"build", "tcl">>, <<"build", "tk">>, <<"build", "togl">>, <<"build", "jpeg">>,
       <<"build", "db">>, <<"build", "conquest_python">>,
       <<"ensure_pip", "conquest_python">>, <<"pip_install", "conquest_python">>,
       <<"pip_install", "conquest_python">>, <<"pip_install", "conquest_python">> >>

\* the steps main() has started, and those that have returned
StepsStarted == SelectSeq(calls, LAMBDA c : c.event = "called")

StepsReturned == SelectSeq(calls, LAMBDA c : c.event = "returned")

\* the steps main() made are the claimed ones in the claimed order, each
\* started after all the steps before it returned without an exception
MainInOrder ==
    /\ Len(StepsStarted) <= Len(ClaimedMainOrder)
    /\ \A i \in 1..Len(StepsStarted) :
          <<StepsStarted[i].call, StepsStarted[i].name>> = ClaimedMainOrder[i]
    /\ \A i \in 1..Len(calls) :
          /\ calls[i].event = (IF i % 2 = 1 THEN "called" ELSE "returned")
          /\ calls[i].ok
          /\ i % 2 = 0 => /\ calls[i].call = calls[i - 1].call
                          /\ calls[i].name = calls[i - 1].name
    /\ pc \in {"running", "calling", "done", "failed"} /\ step >= 1 =>
          Len(StepsStarted) = Len(StepsReturned) + 1
    /\ pkg = ConquestPythonPackage /\ pc # "idle" =>
          /\ Len(StepsReturned) >= 8
          /\ \A i \in 1..8 : StepsReturned[i].call = "build" /\ StepsReturned[i].ok

\* C15: main() builds zlib, sqlite, openssl, tcl, tk, togl, jpeg, db and
\* conquest_python in this order, then calls ensure_pip and pip_install three
\* times; a step starts only after every step before it completed
\* successfully, conquest_python is not built unless the eight libraries were,
\* and a failure of a step is not caught: no later step is ever started.
C15_MainOrder ==
    /\ []MainInOrder
    /\ [][pc = "failed" => pc' = "failed" /\ calls' = calls /\ step' = step]_vars

\* C15 witness: main() has returned after its thirteen steps
C15_Witness ==
    /\ Len(StepsReturned) = 13
    /\ pc = "idle"
    /\ step = 14

\* C15, the failure reached: the build of tk raised and main() is left
C15_FailureReached ==
    /\ pc = "failed"
    /\ pkg = TkPackage
    /\ Len(StepsReturned) = 4

\* the positions of text t at which old occurs
Occurrences(t, old) ==
    {i \in 1..(Len(t) - Len(old) + 1) : SubSeq(t, i, i + Len(old) - 1) = old}

\* the occurrences that are replaced: those not overlapped by a replaced
\* occurrence to their left
RECURSIVE IsReplaced(_, _, _)
IsReplaced(t, old, i) ==
    /\ i \in Occurrences(t, old)
    /\ \A j \in 1..(i - 1) : i < j + Len(old) => ~IsReplaced(t, old, j)

\* text t from position i on, with the replaced occurrences of old turned
\* into new and every other character kept
RECURSIVE Rewritten(_, _, _, _)
Rewritten(t, old, new, i) ==
    IF i > Len(t)
    THEN << >>
    ELSE IF IsReplaced(t, old, i)
    THEN new \o Rewritten(t, old, new, i + Len(old))
    ELSE <<t[i]>> \o Rewritten(t, old, new, i + 1)

\* the first n substitutions applied to t one after the other, in list order
RECURSIVE ClaimedPatch(_, _, _)
ClaimedPatch(t, subs, n) ==
    IF n = 0
    THEN t
    ELSE Rewritten(ClaimedPatch(t, subs, n - 1), subs[n].old, subs[n].new, 1)

\* C16: Package.patch rewrites the file with the result of applying the
\* substitutions in list order, each replacing every occurrence of its old
\* string in the text the one before it produced and changing nothing else;
\* until it writes, the file is as it was.  With the single pair (FO, B) the
\* file ends without any FO, one character shorter for each FO it had.
C16_PatchAppliesInOrder ==
    /\ patchPc = "loop" =>
          /\ txt = ClaimedPatch(original, substitutions, applied)
          /\ patchFile = original
    /\ patchPc = "written" =>
          /\ patchFile = ClaimedPatch(original, substitutions, Len(substitutions))
          /\ substitutions = << [old |-> <<"F", "O">>, new |-> <<"B">>] >> =>
                /\ Occurrences(patchFile, <<"F", "O">>) = {}
                /\ Len(patchFile)
                       = Len(original) - Cardinality(Occurrences(original, <<"F", "O">>))

\* C16 witness: patch has written F F F F over F O O F after replacing F by O
\* and then O by F
C16_Witness ==
    /\ patchPc = "written"
    /\ substitutions = << [old |-> <<"F">>, new |-> <<"O">>],
                          [old |-> <<"O">>, new |-> <<"F">>] >>
    /\ original = <<"F", "O", "O", "F">>
    /\ patchFile = <<"F", "F", "F", "F">>

\* C16, the single pair reached: both FO of F O F O were replaced by B
C16_SinglePairReached ==
    /\ patchPc = "written"
    /\ substitutions = << [old |-> <<"F", "O">>, new |-> <<"B">>] >>
    /\ original = <<"F", "O", "F", "O">>
    /\ patchFile = <<"B", "B">>

\* the download cache, the extraction root, the build root and the log root
NamespacedTrees ==
    {source_downloads_base, source_extracted_base, source_builds_base, build_logs}

\* path lies in the part of its tree that is named after package p
Namespaced(path, p) == Len(path) >= 2 /\ path[2] = p.name

\* C17: every path the stages of a package use in the download cache, the
\* extraction root, the build root and the log root is namespaced by the
\* name of the package, so that packages with different names share no path
\* (not even when they declare the same archive file name).
C17_PathsNamespaced ==
    \A k \in touched :
        (\E t \in NamespacedTrees : IsPrefix(t, k)) => Namespaced(k, pkg)

\* C17, the part the code keeps: what a build() writes in the extraction
\* root, the build root and the log root is namespaced by the package's name
C17_OwnTreesNamespaced ==
    \A k \in touched :
        (\E t \in NamespacedTrees \ {source_downloads_base} : IsPrefix(t, k)) =>
            Namespaced(k, pkg)

\* C19: when the fetch stage has returned, whether it downloaded or skipped,
\* every archive of the manifest holds the complete content of a successful
\* download: a download that failed part-way never leaves a file that a later
\* fetch takes as present.
C19_SkippedFilesComplete ==
    Running /\ "fetch_source_archives" \in Range(completed) =>
        \A i \in 1..Len(pkg.archives) :
            Content(fs, DownloadPath(pkg.archives[i])) = Complete

\* C19, the case reached: a fetch stage returned without any download
\* although an archive of the manifest is a partial file
C19_PartialTakenAsPresent ==
    /\ Running
    /\ "fetch_source_archives" \in Range(completed)
    /\ netOps = 0
    /\ \E i \in 1..Len(pkg.archives) :
          Content(fs, DownloadPath(pkg.archives[i])) = Partial

\* system() has not returned or raised while its subprocess runs, and the
\* loop is left only with p.returncode set, so that the assertion holds
BlocksUntilExit ==
    /\ SysFinished => proc.state \in {"none", "exited"}
    /\ sysPc = "after" => proc.state = "exited" /\ proc.returncode # << >>
    /\ sysError.type # "AssertionError"
    /\ proc.state = "running" => sysPc \in {"poll", "readline"}

\* C18: system() blocks until its subprocess has exited: it never returns or
\* raises while the subprocess runs and the assertion after the loop holds;
\* a command is started only when the one before it has exited, so at most
\* one is alive; and once the subprocess has exited the loop ends and
\* system() returns or raises.
C18_BlocksUntilExit ==
    /\ []BlocksUntilExit
    /\ [][ncalls' # ncalls => proc.state # "running"]_vars
    /\ [](proc.state = "exited" => <>SysFinished)

\* C18 witness: a second system() call has returned, after its subprocess
\* wrote a line and exited with status 0
C18_Witness ==
    /\ ncalls = 2
    /\ sysPc = "returned"
    /\ proc.state = "exited"
    /\ proc.returncode = <<0>>
    /\ Len(emitted) >= 1

\* the eight libraries main() builds before conquest_python
Libraries ==
    {ZlibPackage, SqlitePackage, OpensslPackage, TclPackage, TkPackage, ToglPackage,
     JpegPackage, DbPackage}

\* path belongs to package p: it is in p's extraction or build directory
Own(path, p) ==
    \/ IsPrefix(source_extracted_base \o <<p.name>>, path)
    \/ IsPrefix(source_builds_base \o <<p.name>>, path)

\* path is in an install directory, in the download cache or in the
\* extraction or build directory of a package other than p
Foreign(path, p) ==
    \/ IsPrefix(toolbase, path)
    \/ IsPrefix(source_downloads_base, path)
    \/ /\ IsPrefix(source_extracted_base, path) \/ IsPrefix(source_builds_base, path)
       /\ ~Own(path, p)

\* the step keeps path as it is
Kept(path) == path \in DOMAIN fs' /\ fs'[path] = fs[path]

\* what make install (install-deploy for Tcl and Tk on macOS) of the
\* library leaves in the tree it installs into
Installed(lib) == Content(fs, InstallDirectory(lib, mac) \o <<lib.name>>) = Complete

\* C20: in main(), after the initial removal of the conquest_python install
\* directory, the stages cleanup, fetch, extract and patch of a package
\* delete and modify nothing in an install directory, in the download cache
\* or in another package's extraction and build directories; cleanup changes
\* nothing but the package's own extraction and build directories; nothing
\* installed is ever deleted; so what the eight libraries installed is there
\* when conquest_python is configured and built.
C20_InstallTreeAdditive ==
    /\ [][/\ Running /\ stage <= 4 =>
               \A k \in DOMAIN fs : Foreign(k, pkg) => Kept(k)
          /\ Running /\ BuildOrder[stage] = "cleanup" =>
               \A k \in DOMAIN fs : ~Own(k, pkg) => Kept(k)
          /\ step >= 1 =>
               \A k \in DOMAIN fs : IsPrefix(toolbase, k) => k \in DOMAIN fs']_vars
    /\ [](pkg = ConquestPythonPackage /\ Running /\ stage >= 5 =>
              \A lib \in Libraries : Installed(lib))

\* C20 witness: conquest_python is being built by main() with what the eight
\* libraries installed in place, after its own cleanup, fetch, extract and patch
C20_Witness ==
    /\ step = 9
    /\ pkg = ConquestPythonPackage
    /\ Running
    /\ BuildOrder[stage] = "run_build_command"
    /\ "patch_sources" \in Range(completed)
    /\ \A lib \in Libraries : Installed(lib)
    /\ Exists(fs, DownloadPath(ZlibPackage.archives[1]))

====
